---- MODULE Spec2Model ----
(***************************************************************************)
(* Chat routing and session orchestration of backend/app.py:               *)
(* backboard_chat (one chat turn), create_chat_session,                    *)
(* delete_chat_session, list_chat_sessions, get_chat_history, over the    *)
(* MongoDB backend and the in-process dictionary backend.                  *)
(* Every database operation and every                                      *)
(* call of the external assistant client is one atomic step of the request *)
(* that makes it; requests run in threads and interleave at those steps.   *)
(***************************************************************************)
EXTENDS Integers, Sequences, FiniteSets, TLC

(* ---------------------------------------------------------------- bounds *)
\* chat turns and create-session requests served in one behaviour
MaxRequests == 2
\* delete-session requests in flight at once
MaxDeletes == 1
\* create-session requests served in one behaviour of the listing specification
MaxSessions == 3
\* the largest limit and the largest skip of a history request
MaxLimit == 2
MaxSkip == 2

(* ------------------------------------------------------- values and inputs *)
\* Python None, for string-valued fields
NoneVal == "None"
\* Python None, for the assistant/thread handle fields (handles are 1, 2, ...)
NoHandle == 0
\* a key that a document does not have (created_at of an in-memory turn record)
NoKey == -1

Roles == {"student", "instructor"}
UserIds == {"u1", "u2"}
\* session ids a client sends on its own; it may also send back an id it was given
ClientSessionIds == {"s1"}
\* title hints of a request: none, or a real title
TitleHints == {NoneVal, "Algebra"}

\* truth value of a string-valued field: None and "" are false
Truthy(v) == v # NoneVal /\ v # ""
\* truth value of a handle field
HasHandle(h) == h # NoHandle


\* uuid4(): the n-th generated token
Uuid(n) ==
    LET digit == <<"0", "1", "2", "3", "4", "5", "6", "7", "8", "9">>
    IN  "uuid-" \o (IF n >= 10 THEN digit[(n \div 10) + 1] ELSE "") \o digit[(n % 10) + 1]

(* ------------------------------------------ allow-list and routing config *)
\* services.chat_router.get_allowed_llms(): provider -> permitted models
AllowedModels ==
    [openai |-> {"gpt-4o", "gpt-4o-mini"},
     anthropic |-> {"claude-sonnet"}]

\* services.chat_router.get_routing_config()
RoutingConfig ==
    [DEFAULT_PROVIDER |-> "openai", DEFAULT_MODEL |-> "gpt-4o",
     FAST_PROVIDER |-> "openai", FAST_MODEL |-> "gpt-4o-mini",
     LOGIC_PROVIDER |-> "anthropic", LOGIC_MODEL |-> "claude-sonnet"]

default_provider == RoutingConfig.DEFAULT_PROVIDER
default_model == RoutingConfig.DEFAULT_MODEL

IsAllowed(provider, model) ==
    /\ provider \in DOMAIN AllowedModels
    /\ model \in AllowedModels[provider]

\* one segment "key=value" of a route_reason; the segments are joined by ";"
Seg(k, v) == [key |-> k, val |-> v]

\* str.strip().lower() on the strings that requests carry
StripLower(s) ==
    CASE s = " Manual " -> "manual"
      [] s = "FASTEST" -> "fastest"
      [] s = " OpenAI" -> "openai"
      [] OTHER -> s

\* str.strip()
Strip(s) ==
    CASE s = " Manual " -> "Manual"
      [] s = " OpenAI" -> "OpenAI"
      [] OTHER -> s

\* lines 85-89: the role namespace of a request; anything unknown is "student"
resolve_chat_role(value) ==
    LET role == StripLower(IF Truthy(value) THEN value ELSE "student")
    IN  IF role \notin {"student", "instructor"} THEN "student" ELSE role

\* services.chat_router.route_llm_for_message: content-based bucket
route_llm_for_message(message) ==
    CASE message = "quick" ->
           <<RoutingConfig.FAST_PROVIDER, RoutingConfig.FAST_MODEL, <<Seg("bucket", "fast")>> >>
      [] message = "prove" ->
           <<RoutingConfig.LOGIC_PROVIDER, RoutingConfig.LOGIC_MODEL, <<Seg("bucket", "logic")>> >>
      [] OTHER ->
           <<default_provider, default_model, <<Seg("bucket", "default")>> >>

\* services.chat_router.validate_llm_choice: the pair and no note (<<>>), or the
\* fallback pair and a note
validate_llm_choice(provider, model) ==
    IF IsAllowed(provider, model)
    THEN <<provider, model, <<>> >>
    ELSE <<default_provider, default_model,
           <<Seg("fallback_reason", "unsupported_" \o provider \o ":" \o model)>> >>

\* variant: an unknown preset is kept
CoercePreset_Keep(raw) == StripLower(IF Truthy(raw) THEN raw ELSE "auto")

\* the route_preset after lines 132 and 140-142
CoercePreset(raw) ==
    LET p == StripLower(IF Truthy(raw) THEN raw ELSE "auto")
    IN  IF p \notin {"auto", "fastest", "logical", "everyday", "artistic"} THEN "auto" ELSE p

\* line 131: the route_mode of the request, normalised
NormalMode(raw) == StripLower(IF Truthy(raw) THEN raw ELSE "auto")

\* variant: a requested provider is enough
IsManual_ProviderOnly(req) ==
    NormalMode(req.route_mode) = "manual" /\ Truthy(req.provider)

\* line 146: the request names its provider and model itself
IsManual(req) ==
    NormalMode(req.route_mode) = "manual" /\ Truthy(req.provider) /\ Truthy(req.model)

\* variant: the presets are looked at before the manual request
SelectLLM_PresetFirst(req) ==
    LET route_preset == CoercePreset(req.route_preset)
    IN  IF route_preset = "fastest"
        THEN <<RoutingConfig.FAST_PROVIDER, RoutingConfig.FAST_MODEL,
               <<Seg("bucket", "fast_preset")>> >>
        ELSE IF route_preset = "logical"
        THEN <<RoutingConfig.LOGIC_PROVIDER, RoutingConfig.LOGIC_MODEL,
               <<Seg("bucket", "logical_preset")>> >>
        ELSE IF route_preset \in {"everyday", "artistic"}
        THEN <<default_provider, default_model,
               <<Seg("bucket", route_preset \o "_preset")>> >>
        ELSE IF IsManual(req)
        THEN <<StripLower(req.provider), Strip(req.model), <<Seg("bucket", "manual")>> >>
        ELSE route_llm_for_message(req.message)

\* lines 146-179: the selection, before validation
SelectLLM(req) ==
    LET route_preset == CoercePreset(req.route_preset)
    IN  IF IsManual(req)
        THEN <<StripLower(req.provider), Strip(req.model), <<Seg("bucket", "manual")>> >>
        ELSE IF route_preset = "fastest"
        THEN <<RoutingConfig.FAST_PROVIDER, RoutingConfig.FAST_MODEL,
               <<Seg("bucket", "fast_preset")>> >>
        ELSE IF route_preset = "logical"
        THEN <<RoutingConfig.LOGIC_PROVIDER, RoutingConfig.LOGIC_MODEL,
               <<Seg("bucket", "logical_preset")>> >>
        ELSE IF route_preset \in {"everyday", "artistic"}
        THEN <<default_provider, default_model,
               <<Seg("bucket", route_preset \o "_preset")>> >>
        ELSE route_llm_for_message(req.message)

\* variant: the note of the validation is not appended to the reason
Route_NoNote(req) ==
    LET sel == SelectLLM(req)
        val == validate_llm_choice(sel[1], sel[2])
    IN  [provider |-> val[1], model |-> val[2], route_reason |-> sel[3],
         route_preset |-> CoercePreset(req.route_preset),
         ok |-> IsAllowed(val[1], val[2])]

\* variant: the selection is used as it is, neither validated nor checked
Route_Unchecked(req) ==
    LET sel == SelectLLM(req)
    IN  [provider |-> sel[1], model |-> sel[2], route_reason |-> sel[3],
         route_preset |-> CoercePreset(req.route_preset), ok |-> TRUE]

\* variant: the selection is used without validation
Route_Unvalidated(req) ==
    LET sel == SelectLLM(req)
    IN  [provider |-> sel[1], model |-> sel[2], route_reason |-> sel[3],
         route_preset |-> CoercePreset(req.route_preset),
         ok |-> IsAllowed(sel[1], sel[2])]

\* lines 131-192: routing of one request; ok = FALSE is the 400 of line 192
Route(req) ==
    LET sel == SelectLLM(req)
        val == validate_llm_choice(sel[1], sel[2])
        reason == IF val[3] # <<>> THEN sel[3] \o val[3] ELSE sel[3]
    IN  [provider |-> val[1], model |-> val[2], route_reason |-> reason,
         route_preset |-> CoercePreset(req.route_preset),
         ok |-> IsAllowed(val[1], val[2])]

RouteReq(mode, preset, provider, model, message) ==
    [route_mode |-> mode, route_preset |-> preset, provider |-> provider,
     model |-> model, message |-> message]

\* the routing inputs of the chat turns: a preset that routes away from the
\* default, one that routes to it, and a manual pair outside the allow-list
TurnRequests ==
    {RouteReq(NoneVal, "fastest", NoneVal, NoneVal, "hello"),
     RouteReq(NoneVal, "everyday", NoneVal, NoneVal, "hello"),
     RouteReq("manual", NoneVal, "mistral", "mistral-large", "hello")}

\* every routing input: modes, presets, providers and models that are absent,
\* plain, in need of normalisation, unknown, or outside the allow-list
RouteModes == {NoneVal, "auto", "manual", " Manual "}
RoutePresets ==
    {NoneVal, "auto", "fastest", "FASTEST", "logical", "everyday", "artistic", "turbo"}
RequestedProviders == {NoneVal, "openai", " OpenAI", "anthropic", "mistral"}
RequestedModels == {NoneVal, "gpt-4o", "claude-sonnet", "mistral-large"}
Messages == {"hello", "quick", "prove"}
RouteRequests ==
    {RouteReq(mode, preset, provider, model, message) :
        mode \in RouteModes, preset \in RoutePresets, provider \in RequestedProviders,
        model \in RequestedModels, message \in Messages}

(* ------------------------------------------------------------------ state *)
VARIABLES
    backend,             \* "mongo" (chat_db is not None) or "memory" (chat_db is None)
    chat_sessions,       \* role -> set of documents of <chat db>.chat_sessions
    chat_messages,       \* role -> sequence of documents of <chat db>.chat_messages
    in_memory_sessions,  \* the dictionary role -> (session_id -> record)
    turns,               \* the backboard_chat requests: position and locals
    dels,                \* the delete_chat_session requests in flight: position and locals
    creates,             \* number of create_chat_session requests served
    uuids,               \* number of uuid4() tokens generated
    handles,             \* number of handles the assistant client has returned
    clock,               \* datetime.now(UTC)
    last_response        \* the response returned last, or Pending after any other step

vars == <<backend, chat_sessions, chat_messages, in_memory_sessions, turns, dels,
          creates, uuids, handles, clock, last_response>>

TurnIds == 1..MaxRequests
DelIds == 1..MaxDeletes

Pending == [op |-> "step", role |-> NoneVal, user_id |-> NoneVal,
            session_id |-> NoneVal, status |-> 0, repeat |-> FALSE, args |-> <<>>,
            body |-> <<>>]
Response(op, role, user_id, session_id, status) ==
    [op |-> op, role |-> role, user_id |-> user_id, session_id |-> session_id,
     status |-> status, repeat |-> FALSE, args |-> <<>>, body |-> <<>>]
\* the answer to a list request; args: the limit and skip of the query string,
\* body: the "sessions" or "messages" of the JSON
ListResponse(op, role, user_id, session_id, status, args, body) ==
    [Response(op, role, user_id, session_id, status) EXCEPT !.args = args, !.body = body]
\* the answer to a delete request; repeat: the response just before it was the
\* success of a delete request for the same session
DeleteResponse(role, user_id, session_id, status, repeat) ==
    [Response("delete", role, user_id, session_id, status) EXCEPT !.repeat = repeat]

IdleTurn ==
    [pc |-> "idle", user_id |-> NoneVal, user_role |-> NoneVal, session_id |-> NoneVal,
     session_title |-> NoneVal, route_preset |-> NoneVal,
     provider |-> NoneVal, model |-> NoneVal, route_reason |-> <<>>,
     existing_assistant_id |-> NoHandle, existing_thread_id |-> NoHandle,
     existing_title |-> NoneVal, now |-> 0,
     resolved_assistant_id |-> NoHandle, resolved_thread_id |-> NoHandle,
     used_provider |-> NoneVal, used_model |-> NoneVal, used_route_reason |-> <<>>,
     \* the routing fields of the request body
     request |-> RouteReq(NoneVal, NoneVal, NoneVal, NoneVal, NoneVal),
     \* bookkeeping of the external calls and of the database writes the turn made
     sends |-> <<>>, made_assistant |-> NoHandle, made_thread |-> NoHandle,
     writes |-> <<>>]

IdleDel == [pc |-> "idle", user_id |-> NoneVal, user_role |-> NoneVal,
            session_id |-> NoneVal, repeat |-> FALSE]

\* session ids a client can send: its own, or a token the server has generated
KnownSessionIds == ClientSessionIds \cup {Uuid(n) : n \in 1..uuids}

Init ==
    /\ backend \in {"mongo", "memory"}
    /\ chat_sessions = [r \in Roles |-> {}]
    /\ chat_messages = [r \in Roles |-> <<>>]
    /\ in_memory_sessions = <<>>
    /\ turns = [t \in TurnIds |-> IdleTurn]
    /\ dels = [d \in DelIds |-> IdleDel]
    /\ creates = 0
    /\ uuids = 0
    /\ handles = 0
    /\ clock = 1
    /\ last_response = Pending

(* ------------------------------------------------------- the two backends *)
\* in_memory_sessions.get(user_role, {})
MemRole(role) ==
    IF role \in DOMAIN in_memory_sessions THEN in_memory_sessions[role] ELSE <<>>

\* in_memory_sessions.setdefault(user_role, {})[session_id] = doc
MemPut(role, session_id, doc) ==
    [r \in DOMAIN in_memory_sessions \cup {role} |->
        IF r = role
        THEN [s \in DOMAIN MemRole(role) \cup {session_id} |->
                 IF s = session_id THEN doc ELSE MemRole(role)[s]]
        ELSE in_memory_sessions[r]]

\* in_memory_sessions.get(user_role, {}).pop(session_id, None)
MemPop(role, session_id) ==
    [r \in DOMAIN in_memory_sessions |->
        IF r = role
        THEN [s \in DOMAIN in_memory_sessions[r] \ {session_id} |-> in_memory_sessions[r][s]]
        ELSE in_memory_sessions[r]]

\* the documents of chat_sessions matching {"user_id": ..., "session_id": ...}
Matching(role, user_id, session_id) ==
    {d \in chat_sessions[role] : d.user_id = user_id /\ d.session_id = session_id}

\* variant: the record is written without its thread handle
SessionDoc_NoThread(user_id, session_id, title, assistant_id, thread_id, created_at, updated_at) ==
    [user_id |-> user_id, session_id |-> session_id, title |-> title,
     assistant_id |-> assistant_id, thread_id |-> NoHandle,
     created_at |-> created_at, updated_at |-> updated_at]

\* a session record: lines 448-457, 346-358 (on insert), 383-391
SessionDoc(user_id, session_id, title, assistant_id, thread_id, created_at, updated_at) ==
    [user_id |-> user_id, session_id |-> session_id, title |-> title,
     assistant_id |-> assistant_id, thread_id |-> thread_id,
     created_at |-> created_at, updated_at |-> updated_at]

\* lines 194-203: the stored session the turn sees, as <<record>>, or <<>> for None
FindSession(role, user_id, session_id) ==
    IF backend = "mongo"
    THEN IF Matching(role, user_id, session_id) = {} THEN <<>>
         ELSE <<CHOOSE d \in Matching(role, user_id, session_id) : TRUE>>
    ELSE IF session_id \in DOMAIN MemRole(role)
            /\ MemRole(role)[session_id].user_id = user_id
         THEN <<MemRole(role)[session_id]>>
         ELSE <<>>

\* every stored session record, as <<role namespace, record>>
StoredSessions ==
    IF backend = "mongo"
    THEN UNION {{<<r, d>> : d \in chat_sessions[r]} : r \in Roles}
    ELSE UNION {{<<r, in_memory_sessions[r][s]>> : s \in DOMAIN in_memory_sessions[r]} :
                   r \in DOMAIN in_memory_sessions}

(* --------------------------------------------------------- list_chat_sessions *)
\* line 427: .limit(50)
SessionCap == 50

\* .sort("updated_at", -1) and sessions.sort(key=updated_at, reverse=True)
RECURSIVE SortByUpdatedDesc(_)
SortByUpdatedDesc(docs) ==
    IF docs = {} THEN <<>>
    ELSE LET newest == CHOOSE x \in docs : \A y \in docs : y.updated_at <= x.updated_at
         IN  <<newest>> \o SortByUpdatedDesc(docs \ {newest})

\* lines 412-419: what the in-memory backend returns of a session record
SessionSummary(s) ==
    [session_id |-> s.session_id, title |-> s.title, updated_at |-> s.updated_at]

\* variant: the query has no user filter
ListSessions_AllUsers(role, user_id) ==
    IF backend = "memory"
    THEN SortByUpdatedDesc({SessionSummary(MemRole(role)[s]) : s \in DOMAIN MemRole(role)})
    ELSE LET sorted == SortByUpdatedDesc(chat_sessions[role])
         IN  SubSeq(sorted, 1, IF Len(sorted) < SessionCap THEN Len(sorted) ELSE SessionCap)

\* lines 411-429: the sessions of the user in the role's namespace, newest first
ListSessions(role, user_id) ==
    IF backend = "memory"
    THEN SortByUpdatedDesc({SessionSummary(MemRole(role)[s]) :
                               s \in {x \in DOMAIN MemRole(role) :
                                         MemRole(role)[x].user_id = user_id}})
    ELSE LET sorted == SortByUpdatedDesc({d \in chat_sessions[role] : d.user_id = user_id})
         IN  SubSeq(sorted, 1, IF Len(sorted) < SessionCap THEN Len(sorted) ELSE SessionCap)

\* lines 405-429: GET /api/backboard/chat/sessions/<user_id>
list_chat_sessions(user_role, user_id) ==
    LET role == resolve_chat_role(user_role)
    IN  /\ last_response' = ListResponse("list_sessions", role, user_id, NoneVal, 200,
                                         <<>>, ListSessions(role, user_id))
        /\ UNCHANGED <<backend, chat_sessions, chat_messages, in_memory_sessions, turns,
                       dels, creates, uuids, handles, clock>>

(* ----------------------------------------------------------- get_chat_history *)
\* lines 511-513: find({"user_id": ...}), with "session_id" when the request has one
FindMessages(log, user_id, session_id) ==
    SelectSeq(log, LAMBDA m : /\ m.user_id = user_id
                              /\ Truthy(session_id) => m.session_id = session_id)

\* line 519: .sort("timestamp", -1)
RECURSIVE SortByTimestampDesc(_)
SortByTimestampDesc(msgs) ==
    IF msgs = <<>> THEN <<>>
    ELSE LET newest == CHOOSE i \in 1..Len(msgs) :
                           \A j \in 1..Len(msgs) : msgs[j].timestamp <= msgs[i].timestamp
         IN  <<msgs[newest]>> \o
             SortByTimestampDesc(SubSeq(msgs, 1, newest - 1) \o
                                 SubSeq(msgs, newest + 1, Len(msgs)))

\* line 519: .skip(skip)
CursorSkip(msgs, skip) == SubSeq(msgs, skip + 1, Len(msgs))

\* line 519: .limit(limit); a limit of 0 is no limit
CursorLimit(msgs, limit) ==
    IF limit = 0 THEN msgs
    ELSE SubSeq(msgs, 1, IF Len(msgs) < limit THEN Len(msgs) ELSE limit)

\* line 521: messages.reverse()
RECURSIVE Reverse(_)
Reverse(msgs) == IF msgs = <<>> THEN <<>> ELSE Append(Reverse(Tail(msgs)), Head(msgs))

\* lines 511-521: the page of the log that the request gets, oldest message first
ListMessages(role, user_id, session_id, limit, skip) ==
    Reverse(CursorLimit(CursorSkip(SortByTimestampDesc(
        FindMessages(chat_messages[role], user_id, session_id)), skip), limit))

\* lines 495-525: GET /api/backboard/chat/history/<user_id>; 500 without MongoDB
get_chat_history(user_role, user_id, session_id, limit, skip) ==
    LET role == resolve_chat_role(user_role)
    IN  /\ last_response' =
              IF backend = "memory"
              THEN ListResponse("history", role, user_id, session_id, 500,
                                <<limit, skip>>, <<>>)
              ELSE ListResponse("history", role, user_id, session_id, 200, <<limit, skip>>,
                                ListMessages(role, user_id, session_id, limit, skip))
        /\ UNCHANGED <<backend, chat_sessions, chat_messages, in_memory_sessions, turns,
                       dels, creates, uuids, handles, clock>>

(* --------------------------------------------------- backboard_chat: a turn *)
\* the requests start in slot order
FirstIdleTurn(t) == turns[t].pc = "idle" /\ \A q \in 1..(t - 1) : turns[q].pc # "idle"
FirstIdleDel(d) == dels[d].pc = "idle" /\ \A q \in 1..(d - 1) : dels[q].pc # "idle"

InFlightTurn(t) == turns[t].pc \notin {"idle", "done", "failed", "rejected"}
InFlightDel(d) == dels[d].pc # "idle"
Quiet == (\A t \in TurnIds : ~InFlightTurn(t)) /\ (\A d \in DelIds : ~InFlightDel(d))

\* another chat turn or create-session request can be served
Budget == Cardinality({t \in TurnIds : turns[t].pc # "idle"}) + creates < MaxRequests

\* lines 107-111: a request without user_id is answered 400
ChatRejected ==
    /\ Budget
    /\ last_response' = Response("chat", NoneVal, NoneVal, NoneVal, 400)
    /\ UNCHANGED <<backend, chat_sessions, chat_messages, in_memory_sessions, turns, dels,
                   creates, uuids, handles, clock>>

\* variant: every turn provisions
NeedsProvision_Always(assistant_id, thread_id) == TRUE

\* line 234: the turn provisions handles unless both are cached
NeedsProvision(assistant_id, thread_id) == ~HasHandle(assistant_id) \/ ~HasHandle(thread_id)

\* the position after the user message is handled
AfterUserMessage(assistant_id, thread_id) ==
    IF NeedsProvision(assistant_id, thread_id) THEN "create_assistant" ELSE "add_message"

\* lines 107-209: validation, session id and title hint, routing, session lookup, now
ChatBegin(t, user_role, user_id, sid, title, req) ==
    LET role == resolve_chat_role(user_role)
        session_id == IF Truthy(sid) THEN sid ELSE Uuid(uuids + 1)
        session_title == IF Truthy(title) THEN title ELSE "Untitled"
        routed == Route(req)
        existing_session == FindSession(role, user_id, session_id)
        found == existing_session # <<>>
        existing_assistant_id == IF found THEN existing_session[1].assistant_id ELSE NoHandle
        existing_thread_id == IF found THEN existing_session[1].thread_id ELSE NoHandle
        existing_title == IF found THEN existing_session[1].title ELSE NoneVal
    IN  /\ FirstIdleTurn(t)
        /\ uuids' = IF Truthy(sid) THEN uuids ELSE uuids + 1
        /\ IF ~routed.ok
           THEN /\ turns' = [turns EXCEPT ![t] =
                       [IdleTurn EXCEPT !.pc = "rejected", !.user_id = user_id,
                                        !.user_role = role, !.session_id = session_id,
                                        !.request = req]]
                /\ last_response' = Response("chat", role, user_id, session_id, 400)
                /\ UNCHANGED clock
           ELSE /\ turns' = [turns EXCEPT ![t] =
                       [IdleTurn EXCEPT
                          !.pc = IF backend = "mongo" THEN "insert_user"
                                 ELSE AfterUserMessage(existing_assistant_id, existing_thread_id),
                          !.user_id = user_id, !.user_role = role, !.session_id = session_id,
                          !.session_title = session_title,
                          !.route_preset = routed.route_preset,
                          !.provider = routed.provider, !.model = routed.model,
                          !.route_reason = routed.route_reason,
                          !.existing_assistant_id = existing_assistant_id,
                          !.existing_thread_id = existing_thread_id,
                          !.existing_title = existing_title,
                          !.now = clock,
                          !.resolved_assistant_id = existing_assistant_id,
                          !.resolved_thread_id = existing_thread_id,
                          !.request = req]]
                /\ clock' = clock + 1
                /\ last_response' = Pending
        /\ UNCHANGED <<backend, chat_sessions, chat_messages, in_memory_sessions, dels,
                       creates, handles>>

\* a document of chat_messages
MessageDoc(tr, role, provider, model, route_reason, assistant_id, thread_id, timestamp, t) ==
    [user_id |-> tr.user_id, session_id |-> tr.session_id, role |-> role,
     provider |-> provider, model |-> model, route_preset |-> tr.route_preset,
     route_mode |-> NormalMode(tr.request.route_mode),
     route_reason |-> route_reason, assistant_id |-> assistant_id, thread_id |-> thread_id,
     timestamp |-> timestamp, turn |-> t]

\* variant: the user message is tagged with what the turn ends up using
UserMessage_Final(t) ==
    MessageDoc(turns[t], "user", turns[t].used_provider, turns[t].used_model,
               turns[t].used_route_reason, NoHandle, NoHandle, turns[t].now, t)

\* lines 211-226: the user message, tagged with the routed provider/model/reason
UserMessage(t) ==
    MessageDoc(turns[t], "user", turns[t].provider, turns[t].model, turns[t].route_reason,
               NoHandle, NoHandle, turns[t].now, t)

\* variant: the insert replaces the stored message of the same session and role
InsertOne_Replace(log, doc) ==
    Append(SelectSeq(log, LAMBDA m : ~(/\ m.user_id = doc.user_id
                                       /\ m.session_id = doc.session_id
                                       /\ m.role = doc.role)), doc)

\* variant: the insert is made twice
InsertOne_Twice(log, doc) == Append(Append(log, doc), doc)

\* variant: the insert is lost
InsertOne_Dropped(log, doc) == log

\* chat_messages.insert_one(doc)
InsertOne(log, doc) == Append(log, doc)

ChatInsertUser(t) ==
    /\ turns[t].pc = "insert_user"
    /\ chat_messages' = [chat_messages EXCEPT
                           ![turns[t].user_role] = InsertOne(@, UserMessage(t))]
    /\ turns' = [turns EXCEPT ![t].pc =
                    AfterUserMessage(turns[t].existing_assistant_id,
                                     turns[t].existing_thread_id),
                                 ![t].writes = Append(@, "insert_message")]
    /\ last_response' = Pending
    /\ UNCHANGED <<backend, chat_sessions, in_memory_sessions, dels, creates, uuids,
                   handles, clock>>

\* lines 309-320: the exception of run_chat is answered 500
ChatFail(t) ==
    /\ turns' = [turns EXCEPT ![t].pc = "failed"]
    /\ last_response' = Response("chat", turns[t].user_role, turns[t].user_id,
                                 turns[t].session_id, 500)

\* lines 235-238: client.create_assistant, which returns a new handle or raises
ChatCreateAssistant(t, ok) ==
    /\ turns[t].pc = "create_assistant"
    /\ IF ok
       THEN /\ turns' = [turns EXCEPT ![t].pc = "create_thread",
                                      ![t].made_assistant = handles + 1]
            /\ handles' = handles + 1
            /\ last_response' = Pending
       ELSE /\ ChatFail(t)
            /\ UNCHANGED handles
    /\ UNCHANGED <<backend, chat_sessions, chat_messages, in_memory_sessions, dels,
                   creates, uuids, clock>>

\* lines 239-241: client.create_thread, then both resolved ids are assigned
ChatCreateThread(t, ok) ==
    /\ turns[t].pc = "create_thread"
    /\ IF ok
       THEN /\ turns' = [turns EXCEPT ![t].pc = "add_message",
                                      ![t].made_thread = handles + 1,
                                      ![t].resolved_assistant_id = turns[t].made_assistant,
                                      ![t].resolved_thread_id = handles + 1]
            /\ handles' = handles + 1
            /\ last_response' = Pending
       ELSE /\ ChatFail(t)
            /\ UNCHANGED handles
    /\ UNCHANGED <<backend, chat_sessions, chat_messages, in_memory_sessions, dels,
                   creates, uuids, clock>>

\* one call of client.add_message, as the turn's bookkeeping records it
SendCall(thread_id, provider, model, ok) ==
    [thread_id |-> thread_id, provider |-> provider, model |-> model, ok |-> ok]

\* variant: the fallback leaves the reason as routed
fallback_reason_Unmarked(selected_reason, selected_provider, selected_model) ==
    selected_reason

\* line 286: the reason of a turn answered by the default after the routed pair failed
fallback_reason(selected_reason, selected_provider, selected_model) ==
    Append(selected_reason,
           Seg("runtime_fallback_from", selected_provider \o ":" \o selected_model))

\* lines 267-270: the routed pair is the default pair, so a failure is re-raised
IsDefaultPair(provider, model) == provider = default_provider /\ model = default_model

\* variant: the default pair is retried as well
AfterFirstFailure_AlwaysRetry(provider, model) == "retry"

\* the position after the first add_message failed
AfterFirstFailure(provider, model) ==
    IF IsDefaultPair(provider, model) THEN "failed" ELSE "retry"

\* lines 247-271: the first add_message, with the routed provider/model
ChatAddMessage(t, ok) ==
    LET tr == turns[t]
        call == SendCall(tr.resolved_thread_id, tr.provider, tr.model, ok)
    IN  /\ tr.pc = "add_message"
        /\ IF ok
           THEN /\ turns' = [turns EXCEPT ![t].pc = "upsert_session",
                                          ![t].sends = Append(@, call),
                                          ![t].used_provider = tr.provider,
                                          ![t].used_model = tr.model,
                                          ![t].used_route_reason = tr.route_reason]
                /\ last_response' = Pending
           ELSE IF AfterFirstFailure(tr.provider, tr.model) = "failed"
           THEN /\ turns' = [turns EXCEPT ![t].pc = "failed", ![t].sends = Append(@, call)]
                /\ last_response' = Response("chat", tr.user_role, tr.user_id,
                                             tr.session_id, 500)
           ELSE /\ turns' = [turns EXCEPT ![t].pc = "retry", ![t].sends = Append(@, call)]
                /\ last_response' = Pending
        /\ UNCHANGED <<backend, chat_sessions, chat_messages, in_memory_sessions, dels,
                       creates, uuids, handles, clock>>

\* variant: the retry repeats the routed pair
retry_pair_Routed(selected_provider, selected_model) ==
    <<selected_provider, selected_model>>

\* lines 281-282: the provider/model of the retry
retry_pair(selected_provider, selected_model) == <<default_provider, default_model>>

\* variant: a failed retry starts the attempt over
ChatRetry_Loop(t, ok) ==
    /\ turns[t].pc = "retry"
    /\ turns' = [turns EXCEPT ![t].pc = IF ok THEN "upsert_session" ELSE "add_message",
                              ![t].used_provider = IF ok THEN default_provider ELSE @,
                              ![t].used_model = IF ok THEN default_model ELSE @,
                              ![t].used_route_reason =
                                  IF ok THEN fallback_reason(turns[t].route_reason,
                                                             turns[t].provider, turns[t].model)
                                  ELSE @]
    /\ last_response' = Pending
    /\ UNCHANGED <<backend, chat_sessions, chat_messages, in_memory_sessions, dels,
                   creates, uuids, handles, clock>>

\* lines 278-294: the retry, with the default provider/model
ChatRetry(t, ok) ==
    LET tr == turns[t]
        pair == retry_pair(tr.provider, tr.model)
        call == SendCall(tr.resolved_thread_id, pair[1], pair[2], ok)
    IN  /\ tr.pc = "retry"
        /\ IF ok
           THEN /\ turns' = [turns EXCEPT ![t].pc = "upsert_session",
                                          ![t].sends = Append(@, call),
                                          ![t].used_provider = default_provider,
                                          ![t].used_model = default_model,
                                          ![t].used_route_reason =
                                              fallback_reason(tr.route_reason, tr.provider,
                                                              tr.model)]
                /\ last_response' = Pending
           ELSE /\ turns' = [turns EXCEPT ![t].pc = "failed", ![t].sends = Append(@, call)]
                /\ last_response' = Response("chat", tr.user_role, tr.user_id,
                                             tr.session_id, 500)
        /\ UNCHANGED <<backend, chat_sessions, chat_messages, in_memory_sessions, dels,
                       creates, uuids, handles, clock>>

\* variant: the title hint of the request always wins
resolved_title_Clobber(existing_title, session_title) == session_title

\* lines 344 and 387: existing_title or session_title
resolved_title(existing_title, session_title) ==
    IF Truthy(existing_title) THEN existing_title ELSE session_title

\* variant: the session is not written
UpsertSession_Skip(role, user_id, session_id, title, assistant_id, thread_id, now) ==
    chat_sessions[role]

\* lines 345-361: chat_sessions.update_one(filter, $setOnInsert, $set, upsert=True)
UpsertSession(role, user_id, session_id, title, assistant_id, thread_id, now) ==
    LET m == Matching(role, user_id, session_id)
    IN  IF m = {}
        THEN chat_sessions[role] \cup
               {SessionDoc(user_id, session_id, title, assistant_id, thread_id, now, now)}
        ELSE LET d == CHOOSE x \in m : TRUE
             IN  (chat_sessions[role] \ {d}) \cup
                   {[d EXCEPT !.updated_at = now, !.title = title,
                              !.assistant_id = assistant_id, !.thread_id = thread_id]}

\* lines 383-391: the record the in-memory backend stores for the session
MemorySessionDoc(tr, title) ==
    SessionDoc(tr.user_id, tr.session_id, title, tr.resolved_assistant_id,
               tr.resolved_thread_id, NoKey, tr.now)

\* lines 340-361 and 382-391: the session record is written
ChatUpsertSession(t) ==
    LET tr == turns[t]
        title == resolved_title(tr.existing_title, tr.session_title)
    IN  /\ tr.pc = "upsert_session"
        /\ IF backend = "mongo"
           THEN /\ chat_sessions' = [chat_sessions EXCEPT ![tr.user_role] =
                       UpsertSession(tr.user_role, tr.user_id, tr.session_id, title,
                                     tr.resolved_assistant_id, tr.resolved_thread_id, tr.now)]
                /\ turns' = [turns EXCEPT ![t].pc = "insert_assistant",
                                          ![t].writes = Append(@, "upsert_session")]
                /\ last_response' = Pending
                /\ UNCHANGED in_memory_sessions
           ELSE /\ in_memory_sessions' =
                       MemPut(tr.user_role, tr.session_id, MemorySessionDoc(tr, title))
                /\ turns' = [turns EXCEPT ![t].pc = "done",
                                          ![t].writes = Append(@, "upsert_session")]
                /\ last_response' = Response("chat", tr.user_role, tr.user_id,
                                             tr.session_id, 200)
                /\ UNCHANGED chat_sessions
        /\ UNCHANGED <<backend, chat_messages, dels, creates, uuids, handles, clock>>

\* lines 363-381: the assistant message, tagged with what was used
AssistantMessage(t) ==
    MessageDoc(turns[t], "assistant", turns[t].used_provider, turns[t].used_model,
               turns[t].used_route_reason, turns[t].resolved_assistant_id,
               turns[t].resolved_thread_id, clock, t)

ChatInsertAssistant(t) ==
    /\ turns[t].pc = "insert_assistant"
    /\ chat_messages' = [chat_messages EXCEPT
                           ![turns[t].user_role] = InsertOne(@, AssistantMessage(t))]
    /\ clock' = clock + 1
    /\ turns' = [turns EXCEPT ![t].pc = "done", ![t].writes = Append(@, "insert_message")]
    /\ last_response' = Response("chat", turns[t].user_role, turns[t].user_id,
                                 turns[t].session_id, 200)
    /\ UNCHANGED <<backend, chat_sessions, in_memory_sessions, dels, creates, uuids, handles>>

(* -------------------------------------------------------- create_chat_session *)
\* lines 443-445: the title of a created session
created_title(title) ==
    LET given == IF Truthy(title) THEN title ELSE "New chat"
    IN  IF given = "New chat" THEN "Untitled" ELSE given

\* variant: the session is written before user_id is looked at
CreateRejected_Late ==
    /\ Budget
    /\ last_response' = Response("create", NoneVal, NoneVal, NoneVal, 400)
    /\ uuids' = uuids + 1
    /\ IF backend = "mongo"
       THEN /\ chat_sessions' = [chat_sessions EXCEPT !["student"] = @ \cup
                   {[user_id |-> NoneVal, session_id |-> Uuid(uuids + 1), title |-> "Untitled",
                     assistant_id |-> NoHandle, thread_id |-> NoHandle,
                     created_at |-> clock, updated_at |-> clock]}]
            /\ UNCHANGED in_memory_sessions
       ELSE /\ in_memory_sessions' = MemPut("student", Uuid(uuids + 1),
                   [user_id |-> NoneVal, session_id |-> Uuid(uuids + 1), title |-> "Untitled",
                    assistant_id |-> NoHandle, thread_id |-> NoHandle,
                    created_at |-> clock, updated_at |-> clock])
            /\ UNCHANGED chat_sessions
    /\ UNCHANGED <<backend, chat_messages, turns, dels, creates, handles, clock>>

\* lines 434-437: a request without user_id is answered 400
CreateRejected ==
    /\ Budget
    /\ last_response' = Response("create", NoneVal, NoneVal, NoneVal, 400)
    /\ UNCHANGED <<backend, chat_sessions, chat_messages, in_memory_sessions, turns, dels,
                   creates, uuids, handles, clock>>

\* lines 439-468: a new empty session under a generated id
CreateSession(user_role, user_id, title) ==
    LET role == resolve_chat_role(user_role)
        session_id == Uuid(uuids + 1)
        session_doc == SessionDoc(user_id, session_id, created_title(title),
                                  NoHandle, NoHandle, clock, clock)
    IN  /\ creates' = creates + 1
        /\ uuids' = uuids + 1
        /\ clock' = clock + 1
        /\ IF backend = "mongo"
           THEN /\ chat_sessions' = [chat_sessions EXCEPT ![role] = @ \cup {session_doc}]
                /\ UNCHANGED in_memory_sessions
           ELSE /\ in_memory_sessions' = MemPut(role, session_id, session_doc)
                /\ UNCHANGED chat_sessions
        /\ last_response' = Response("create", role, user_id, session_id, 200)
        /\ UNCHANGED <<backend, chat_messages, turns, dels, handles>>

(* -------------------------------------------------------- delete_chat_session *)
\* lines 480-481 and 487-488: does the request find a session to delete
DeleteFinds(role, user_id, session_id) == FindSession(role, user_id, session_id) # <<>>

\* variant: the session document stays
DeleteOne_Keep(role, user_id, session_id) == chat_sessions[role]

\* line 487: chat_sessions.delete_one({"user_id": ..., "session_id": ...})
DeleteOne(role, user_id, session_id) ==
    chat_sessions[role] \ {CHOOSE x \in Matching(role, user_id, session_id) : TRUE}

\* lines 479-482 and 487-489: the lookup (memory) or delete_one (mongo); 404 if none
DeleteBegin(d, user_role, user_id, session_id) ==
    LET role == resolve_chat_role(user_role)
        repeat == last_response = Response("delete", role, user_id, session_id, 200)
    IN  /\ FirstIdleDel(d)
        /\ IF ~DeleteFinds(role, user_id, session_id)
           THEN /\ dels' = dels
                /\ last_response' = DeleteResponse(role, user_id, session_id, 404, repeat)
                /\ UNCHANGED chat_sessions
           ELSE /\ dels' = [dels EXCEPT ![d] = [pc |-> "cascade", user_id |-> user_id,
                                                user_role |-> role,
                                                session_id |-> session_id,
                                                repeat |-> repeat]]
                /\ last_response' = Pending
                /\ chat_sessions' =
                     IF backend = "mongo"
                     THEN [chat_sessions EXCEPT ![role] = DeleteOne(role, user_id, session_id)]
                     ELSE chat_sessions
        /\ UNCHANGED <<backend, chat_messages, in_memory_sessions, turns, creates, uuids,
                       handles, clock>>

\* variant: the cascade filters on the user only
DeleteMany_AllOfUser(log, user_id, session_id) ==
    SelectSeq(log, LAMBDA m : m.user_id # user_id)

\* variant: no cascade
DeleteMany_None(log, user_id, session_id) == log

\* chat_messages.delete_many({"user_id": ..., "session_id": ...})
DeleteMany(log, user_id, session_id) ==
    SelectSeq(log, LAMBDA m : ~(m.user_id = user_id /\ m.session_id = session_id))

\* lines 483-484 (the pop) and 491-493 (the cascade), answered 200
DeleteFinish(d) ==
    LET dr == dels[d]
    IN  /\ dr.pc = "cascade"
        /\ IF backend = "mongo"
           THEN /\ chat_messages' = [chat_messages EXCEPT ![dr.user_role] =
                                        DeleteMany(@, dr.user_id, dr.session_id)]
                /\ UNCHANGED in_memory_sessions
           ELSE /\ in_memory_sessions' = MemPop(dr.user_role, dr.session_id)
                /\ UNCHANGED chat_messages
        /\ dels' = [dels EXCEPT ![d] = IdleDel]
        /\ last_response' = Response("delete", dr.user_role, dr.user_id, dr.session_id, 200)
        /\ UNCHANGED <<backend, chat_sessions, turns, creates, uuids, handles, clock>>

(* ---------------------------------------------------------- specifications *)
\* a turn's own steps, whatever else is in flight
TurnStep ==
    \E t \in TurnIds :
        \/ ChatInsertUser(t)
        \/ \E ok \in BOOLEAN : ChatCreateAssistant(t, ok)
        \/ \E ok \in BOOLEAN : ChatCreateThread(t, ok)
        \/ \E ok \in BOOLEAN : ChatAddMessage(t, ok)
        \/ \E ok \in BOOLEAN : ChatRetry(t, ok)
        \/ ChatUpsertSession(t)
        \/ ChatInsertAssistant(t)

DeleteStep == \E d \in DelIds : DeleteFinish(d)

\* a chat request arrives, its fields drawn from the given sets
ChatArrival(roles, users, sids, titles, reqs) ==
    \E t \in TurnIds, role \in roles, user_id \in users, sid \in sids, title \in titles,
       req \in reqs :
         ChatBegin(t, role, user_id, sid, title, req)

CreateArrival(roles, users, titles) ==
    \E role \in roles, user_id \in users, title \in titles :
        CreateSession(role, user_id, title)

\* a request to list the sessions of a user arrives
ListSessionsArrival(roles, users) ==
    \E role \in roles, user_id \in users : list_chat_sessions(role, user_id)

DeleteArrival(roles, users, sids) ==
    \E d \in DelIds, role \in roles, user_id \in users, sid \in sids :
        DeleteBegin(d, role, user_id, sid)

\* Chat turns of one user, on the session the client names or on a new one, with
\* every routing outcome; the turns are served one at a time.
NextChat ==
    \/ ChatRejected
    \/ Quiet /\ Budget /\ ChatArrival({"student"}, {"u1"}, ClientSessionIds \cup {NoneVal},
                                      TitleHints, TurnRequests)
    \/ TurnStep
SpecChat == Init /\ [][NextChat]_vars

\* The session store: sessions are created, written by turns and deleted, by two
\* users; the requests are served one at a time.
StoreArrival ==
    \/ ChatRejected
    \/ Budget /\ ChatArrival({"student"}, UserIds, KnownSessionIds, TitleHints,
                              {RouteReq(NoneVal, "fastest", NoneVal, NoneVal, "hello")})
    \/ CreateRejected
    \/ Budget /\ CreateArrival({"student"}, UserIds, TitleHints)
    \/ DeleteArrival({"student"}, UserIds, KnownSessionIds)
Next == (Quiet /\ StoreArrival) \/ TurnStep \/ DeleteStep
Spec == Init /\ [][Next]_vars

\* Listing: sessions are created in both role namespaces by two users, one turn
\* writes to a session, and the sessions of a user are listed.
ListArrival ==
    \/ creates < MaxSessions /\ CreateArrival(Roles, UserIds, {NoneVal})
    \/ turns[1].pc = "idle"
          /\ ChatArrival({"student"}, {"u1"}, KnownSessionIds, {NoneVal},
                         {RouteReq(NoneVal, "fastest", NoneVal, NoneVal, "hello")})
    \/ ListSessionsArrival(Roles, UserIds)
NextList == (Quiet /\ ListArrival) \/ TurnStep
SpecList == Init /\ [][NextList]_vars

\* Routing: one chat turn, its routing fields drawn from every combination of
\* modes, presets, requested providers and models, and messages.
NextRoute ==
    \/ turns[1].pc = "idle"
          /\ ChatArrival({"student"}, {"u1"}, ClientSessionIds, {NoneVal}, RouteRequests)
    \/ TurnStep
SpecRoute == Init /\ [][NextRoute]_vars

\* Routing with progress: every await of run_chat returns or raises and the handler
\* runs on to its return, so a step of a turn in flight is eventually taken.
NextRouteLive ==
    \/ turns[1].pc = "idle"
          /\ ChatArrival({"student"}, {"u1"}, ClientSessionIds, {NoneVal}, RouteRequests)
    \/ TurnStep
SpecRouteLive == Init /\ [][NextRouteLive]_vars /\ WF_vars(TurnStep)

\* History: turns of two users, on the session the client names or on a new
\* one, and requests of one of them for a page of the message log.
HistoryArrival(roles, users, sids) ==
    \E role \in roles, user_id \in users, sid \in sids, limit \in 0..MaxLimit,
       skip \in 0..MaxSkip :
         get_chat_history(role, user_id, sid, limit, skip)
NextHistory ==
    \/ Quiet /\ Budget
             /\ ChatArrival({"student"}, UserIds, ClientSessionIds \cup {NoneVal}, {NoneVal},
                            {RouteReq(NoneVal, "fastest", NoneVal, NoneVal, "hello")})
    \/ Quiet /\ HistoryArrival({"student"}, {"u1"}, ClientSessionIds \cup {NoneVal})
    \/ TurnStep
SpecHistory == Init /\ [][NextHistory]_vars

\* The cap of the listing: one user creates sessions until there is one more
\* than list_chat_sessions may return, and lists them.
NextCap ==
    \/ creates <= SessionCap /\ CreateArrival({"student"}, {"u1"}, {NoneVal})
    \/ ListSessionsArrival({"student"}, {"u1"})
SpecCap == Init /\ [][NextCap]_vars

\* Concurrency: chat turns of one user on one session, with and without a
\* title, run in threads; their steps interleave freely.  The turns are routed
\* to the default pair, so none of them retries.
DefaultTurnStep ==
    \E t \in TurnIds :
        \/ ChatInsertUser(t)
        \/ \E ok \in BOOLEAN : ChatCreateAssistant(t, ok)
        \/ \E ok \in BOOLEAN : ChatCreateThread(t, ok)
        \/ \E ok \in BOOLEAN : ChatAddMessage(t, ok)
        \/ ChatUpsertSession(t)
        \/ ChatInsertAssistant(t)
NextConc ==
    \* the first request may name a title, the later ones name none
    \/ Budget /\ turns[1].pc = "idle"
              /\ ChatArrival({"student"}, {"u1"}, ClientSessionIds, TitleHints,
                             {RouteReq(NoneVal, "everyday", NoneVal, NoneVal, "hello")})
    \/ Budget /\ turns[1].pc # "idle"
              /\ ChatArrival({"student"}, {"u1"}, ClientSessionIds, {NoneVal},
                             {RouteReq(NoneVal, "everyday", NoneVal, NoneVal, "hello")})
    \/ DefaultTurnStep
SpecConc == Init /\ [][NextConc]_vars

\* Deleting under way: chat turns of one user on one session and delete requests
\* for that session run in threads; their steps interleave freely.
NextDelete ==
    \/ Budget /\ ChatArrival({"student"}, {"u1"}, ClientSessionIds, {NoneVal},
                              {RouteReq(NoneVal, "everyday", NoneVal, NoneVal, "hello")})
    \/ DeleteArrival({"student"}, {"u1"}, ClientSessionIds)
    \/ DefaultTurnStep
    \/ DeleteStep
SpecDelete == Init /\ [][NextDelete]_vars

(* ----------------------------------------------------------------- claims *)
Started(t) == turns[t].pc # "idle"
Ended(t) == turns[t].pc \in {"done", "failed"}
RoutedToDefault(t) == IsDefaultPair(turns[t].provider, turns[t].model)
\* the messages of the log of the turn's role, as a set
LogOf(role) == {chat_messages[role][i] : i \in 1..Len(chat_messages[role])}
HasMarker(reason) == \E i \in 1..Len(reason) : reason[i].key = "runtime_fallback_from"

\* C1: a turn routed to the default pair whose first SendMessage call fails makes
\* exactly one SendMessage call and ends in failure.
C1_NoRetryOnDefault ==
    \A t \in TurnIds :
        (RoutedToDefault(t) /\ Len(turns[t].sends) >= 1 /\ ~turns[t].sends[1].ok)
            => (Len(turns[t].sends) = 1 /\ turns[t].pc = "failed")

C1_Witness ==
    \E t \in TurnIds :
        /\ RoutedToDefault(t)
        /\ Len(turns[t].sends) = 1 /\ ~turns[t].sends[1].ok
        /\ turns[t].pc = "failed"

\* C2: a turn calls SendMessage at most twice; the first call uses the routed
\* pair; a second call is made only after the first failed with a routed pair
\* other than the default, it uses the default pair, and when it fails the turn
\* has failed.
C2_AtMostOneFallback ==
    \A t \in TurnIds :
        LET sends == turns[t].sends
        IN  /\ Len(sends) <= 2
            /\ Len(sends) >= 1 =>
                 /\ sends[1].provider = turns[t].provider
                 /\ sends[1].model = turns[t].model
            /\ Len(sends) = 2 =>
                 /\ ~sends[1].ok
                 /\ ~RoutedToDefault(t)
                 /\ sends[2].provider = default_provider
                 /\ sends[2].model = default_model
                 /\ ~sends[2].ok => turns[t].pc = "failed"

C2_Witness ==
    \E t \in TurnIds :
        /\ Len(turns[t].sends) = 2 /\ ~turns[t].sends[2].ok
        /\ turns[t].pc = "failed"

\* C3: a stored assistant message carries the provider/model of the SendMessage
\* call that succeeded; after a fallback that is the default pair and the reason
\* is the routed reason plus runtime_fallback_from=<routed provider>:<routed
\* model>; otherwise it is the routed pair and the routed reason, with no marker.
C3_AssistantProvenance ==
    \A r \in Roles : \A m \in LogOf(r) :
        m.role = "assistant" =>
            LET tr == turns[m.turn]
                n == Len(tr.sends)
            IN  /\ n >= 1
                /\ tr.sends[n].ok
                /\ m.provider = tr.sends[n].provider
                /\ m.model = tr.sends[n].model
                /\ IF n = 2
                   THEN /\ m.provider = default_provider /\ m.model = default_model
                        /\ m.route_reason =
                             tr.route_reason \o
                               <<[key |-> "runtime_fallback_from",
                                  val |-> tr.provider \o ":" \o tr.model]>>
                   ELSE /\ m.provider = tr.provider /\ m.model = tr.model
                        /\ m.route_reason = tr.route_reason
                        /\ ~HasMarker(m.route_reason)

C3_Witness ==
    \E r \in Roles : \E m \in LogOf(r) :
        /\ m.role = "assistant"
        /\ Len(turns[m.turn].sends) = 2
        /\ HasMarker(m.route_reason)

\* the user message of turn t is in the log of its role
UserMessageLogged(t) ==
    \E m \in LogOf(turns[t].user_role) :
        /\ m.role = "user" /\ m.turn = t
        /\ m.user_id = turns[t].user_id /\ m.session_id = turns[t].session_id

C5_HandlesPaired ==
    \A e \in StoredSessions : HasHandle(e[2].assistant_id) <=> HasHandle(e[2].thread_id)

C5_Witness ==
    /\ \E e \in StoredSessions : HasHandle(e[2].assistant_id) /\ HasHandle(e[2].thread_id)
    /\ \E e \in StoredSessions : ~HasHandle(e[2].assistant_id) /\ ~HasHandle(e[2].thread_id)

\* the turn found a session that stores both handles
FoundHandles(t) ==
    /\ Started(t)
    /\ HasHandle(turns[t].existing_assistant_id)
    /\ HasHandle(turns[t].existing_thread_id)

\* C6: a turn on a session that stores both handles creates no assistant and no
\* thread, sends on the stored thread, and the session keeps the handles it had.
C6_CachedHandlesReused ==
    \A t \in TurnIds :
        FoundHandles(t) =>
            LET tr == turns[t]
                stored == FindSession(tr.user_role, tr.user_id, tr.session_id)
            IN  /\ tr.pc \notin {"create_assistant", "create_thread"}
                /\ tr.made_assistant = NoHandle /\ tr.made_thread = NoHandle
                /\ \A i \in 1..Len(tr.sends) : tr.sends[i].thread_id = tr.existing_thread_id
                /\ stored # <<>>
                /\ stored[1].assistant_id = tr.existing_assistant_id
                /\ stored[1].thread_id = tr.existing_thread_id

C6_Witness ==
    \E t \in TurnIds :
        /\ FoundHandles(t)
        /\ turns[t].pc = "done" /\ Len(turns[t].sends) = 2

\* C7: when a turn has ended, an assistant it created through the external
\* client is the assistant handle of a stored session.
C7_ProvisionedHandlesRecorded ==
    \A t \in TurnIds :
        (Ended(t) /\ turns[t].made_assistant # NoHandle)
            => \E e \in StoredSessions : e[2].assistant_id = turns[t].made_assistant

\* every session id of the model: the clients' own and the generated ones
AllSessionIds == ClientSessionIds \cup {Uuid(n) : n \in 1..6}

\* C8: with requests served one at a time, no step of a chat turn that supplies
\* no title (its hint is the default "Untitled") changes the non-empty title
\* that the session of that user stores, whether a turn or create_chat_session
\* stored it.
C8_TitlePreserved ==
    [][\A t \in TurnIds :
          (turns'[t].pc # turns[t].pc /\ turns'[t].session_title = "Untitled") =>
             \A r \in {turns'[t].user_role}, u \in {turns'[t].user_id},
                sid \in {turns'[t].session_id} :
                  LET stored == FindSession(r, u, sid)
                  IN  (stored # <<>> /\ Truthy(stored[1].title))
                      => /\ FindSession(r, u, sid)' # <<>>
                         /\ (FindSession(r, u, sid)')[1].title = stored[1].title
      ]_vars

C8_Witness ==
    \E t \in TurnIds :
        LET stored == FindSession(turns[t].user_role, turns[t].user_id, turns[t].session_id)
        IN  /\ turns[t].pc = "done"
            /\ turns[t].session_title = "Untitled"
            /\ turns[t].existing_title = "Algebra"
            /\ stored # <<>>
            /\ stored[1].title = "Algebra"

\* C9: a delete request for a session that exists is not answered not-found and
\* its cascade ends in success; a delete request for the same (role, user_id,
\* session_id) made right after that success finds nothing, is answered
\* not-found, and changes neither the sessions nor the messages.
C9_DeleteTwice ==
    [][/\ \A d \in DelIds :
             \* the request finds the session: not right after a success for it
             /\ (dels[d].pc = "idle" /\ dels'[d].pc = "cascade") =>
                   last_response # Response("delete", dels'[d].user_role, dels'[d].user_id,
                                            dels'[d].session_id, 200)
             \* the cascade ends in success
             /\ (dels[d].pc = "cascade" /\ dels'[d].pc = "idle") =>
                   last_response' = Response("delete", dels[d].user_role, dels[d].user_id,
                                             dels[d].session_id, 200)
       /\ (last_response'.op = "delete" /\ last_response'.status = 404) =>
             \* not-found is answered only when no such session is stored
             /\ \A r \in {last_response'.role}, u \in {last_response'.user_id},
                   sid \in {last_response'.session_id} : ~DeleteFinds(r, u, sid)
             \* and the repeated request changes nothing
             /\ last_response'.repeat =>
                   UNCHANGED <<chat_sessions, chat_messages, in_memory_sessions>>
      ]_vars

C9_Witness ==
    /\ last_response.op = "delete"
    /\ last_response.status = 404
    /\ last_response.repeat

\* C10: right after a delete request was answered with success, and with no
\* turn for that session in flight, the session is not among the sessions
\* listed for the user and the log of the role holds no message of that
\* (user_id, session_id).
C10_DeletedSessionGone ==
    \A r \in Roles, u \in UserIds, sid \in AllSessionIds :
        ( /\ last_response = Response("delete", r, u, sid, 200)
          /\ \A t \in TurnIds :
                InFlightTurn(t) => ~( /\ turns[t].user_role = r /\ turns[t].user_id = u
                                      /\ turns[t].session_id = sid ) )
        => /\ \A i \in 1..Len(ListSessions(r, u)) : ListSessions(r, u)[i].session_id # sid
           /\ \A m \in LogOf(r) : ~(m.user_id = u /\ m.session_id = sid)

C10_Witness ==
    /\ backend = "mongo"
    /\ last_response.op = "delete" /\ last_response.status = 200
    /\ \E t \in TurnIds :
          /\ turns[t].pc = "done"
          /\ turns[t].user_role = last_response.role
          /\ turns[t].user_id = last_response.user_id
          /\ turns[t].session_id = last_response.session_id
    /\ Len(ListSessions(last_response.role, last_response.user_id)) >= 1

\* the entries of the answer to the list_chat_sessions request answered last
Listed == last_response.body
\* the stored record that a listed entry was made from
IsRecordOf(e, entry) ==
    /\ e[2].session_id = entry.session_id
    /\ e[2].title = entry.title
    /\ e[2].updated_at = entry.updated_at

\* C11: ListSessions(role, user_id) returns only sessions stored under that
\* user id in the namespace of that role, ordered by updated_at descending, on
\* the MongoDB backend and on the in-memory backend.
C11_ListSessionsScoped ==
    last_response.op = "list_sessions" =>
        /\ \A i \in 1..Len(Listed) :
              \E e \in StoredSessions :
                  /\ e[1] = last_response.role
                  /\ e[2].user_id = last_response.user_id
                  /\ IsRecordOf(e, Listed[i])
        /\ \A i, j \in 1..Len(Listed) :
              i < j => Listed[i].updated_at >= Listed[j].updated_at

\* two sessions are listed while another user has a session in the same
\* namespace and the same user has one in the other namespace
C11_Witness ==
    /\ last_response.op = "list_sessions"
    /\ Len(Listed) >= 2
    /\ Listed[1].updated_at > Listed[2].updated_at
    /\ \E e \in StoredSessions :
          e[1] = last_response.role /\ e[2].user_id # last_response.user_id
    /\ \E e \in StoredSessions :
          e[1] # last_response.role /\ e[2].user_id = last_response.user_id

\* C12: ListSessions never returns more than the cap of 50 sessions, however
\* many sessions the user has, on the MongoDB backend and on the in-memory
\* backend alike.
C12_ListSessionsCapped ==
    last_response.op = "list_sessions" => Len(Listed) <= SessionCap

\* the answer to a get_chat_history request that was served from the log
AnsweredHistory == last_response.op = "history" /\ last_response.status = 200
HistoryLimit == last_response.args[1]
HistorySkip == last_response.args[2]
HistoryLog == chat_messages[last_response.role]
\* the positions in the log of the messages that the request asks for
HistoryMatches ==
    {i \in 1..Len(HistoryLog) :
        /\ HistoryLog[i].user_id = last_response.user_id
        /\ Truthy(last_response.session_id) =>
              HistoryLog[i].session_id = last_response.session_id}
\* the rank of a message among them, newest first
HistoryRank(i) ==
    1 + Cardinality({j \in HistoryMatches : HistoryLog[j].timestamp > HistoryLog[i].timestamp})
Ascending(msgs) ==
    \A i, j \in 1..Len(msgs) : i < j => msgs[i].timestamp <= msgs[j].timestamp
Elements(msgs) == {msgs[i] : i \in 1..Len(msgs)}
\* the page at the k-th of the successive offsets 0, limit, 2*limit, ...
HistoryPage(k) ==
    Elements(ListMessages(last_response.role, last_response.user_id,
                          last_response.session_id, HistoryLimit, k * HistoryLimit))

\* C13: ListMessages with limit = N returns at most N messages, in ascending
\* timestamp order, for every N >= 0 including N = 0, and for every offset.
C13_ListMessagesBounded ==
    AnsweredHistory =>
        /\ Len(Listed) <= HistoryLimit
        /\ Ascending(Listed)

\* C14: ListMessages returns exactly the messages of the user (and of the
\* session, when the request names one) ranked offset+1 .. offset+limit
\* newest-first, oldest first in the page; the pages at the offsets 0, limit,
\* 2*limit, ... over an unchanged log are disjoint and together cover the log.
C14_ListMessagesPages ==
    AnsweredHistory =>
        /\ Elements(Listed) =
              {HistoryLog[i] : i \in {m \in HistoryMatches :
                                        /\ HistorySkip + 1 <= HistoryRank(m)
                                        /\ HistoryRank(m) <= HistorySkip + HistoryLimit}}
        /\ Len(Listed) = Cardinality(Elements(Listed))
        /\ Ascending(Listed)
        /\ \A k1, k2 \in 0..Len(HistoryLog) :
              k1 # k2 => HistoryPage(k1) \cap HistoryPage(k2) = {}
        /\ UNION {HistoryPage(k) : k \in 0..Len(HistoryLog)} =
              {HistoryLog[i] : i \in HistoryMatches}

\* C15: for route_mode = manual and a requested (provider, model) that is on
\* the allow-list, routing returns exactly that pair with the reason
\* 'bucket=manual', whatever the preset and the message are.
C15_ManualHonoured ==
    \A t \in TurnIds :
        LET req == turns[t].request
        IN  (/\ Started(t)
             /\ NormalMode(req.route_mode) = "manual"
             /\ IsAllowed(req.provider, req.model))
            => /\ turns[t].pc # "rejected"
               /\ turns[t].provider = req.provider
               /\ turns[t].model = req.model
               /\ turns[t].route_reason = <<Seg("bucket", "manual")>>

\* a manual request for an allow-listed pair that neither its preset nor its
\* message would select
C15_Witness ==
    \E t \in TurnIds :
        LET req == turns[t].request
        IN  /\ Started(t)
            /\ req.route_mode = " Manual "
            /\ req.route_preset = "fastest"
            /\ req.message = "quick"
            /\ req.provider = "anthropic" /\ req.model = "claude-sonnet"
            /\ turns[t].provider = "anthropic" /\ turns[t].model = "claude-sonnet"

\* C16: whenever the selected (provider, model) is not on the allow-list, the
\* validation substitutes the default pair, and the reason is the reason of the
\* selection followed by ';' and a fallback annotation.
C16_FallbackToDefault ==
    \A t \in TurnIds :
        LET sel == SelectLLM(turns[t].request)
        IN  (Started(t) /\ ~IsAllowed(sel[1], sel[2]))
            => /\ turns[t].provider = default_provider
               /\ turns[t].model = default_model
               /\ Len(turns[t].route_reason) = Len(sel[3]) + 1
               /\ SubSeq(turns[t].route_reason, 1, Len(sel[3])) = sel[3]
               /\ turns[t].route_reason[Len(sel[3]) + 1].key = "fallback_reason"

\* a manual request for a pair outside the allow-list was routed
C16_Witness ==
    \E t \in TurnIds :
        /\ Started(t)
        /\ turns[t].request.provider = "mistral"
        /\ turns[t].request.model = "mistral-large"
        /\ turns[t].request.route_preset = "logical"
        /\ turns[t].route_reason[1] = Seg("bucket", "manual")
        /\ Len(turns[t].route_reason) = 2

\* the preset of a request as the rules read it
PresetOf(req) == StripLower(IF Truthy(req.route_preset) THEN req.route_preset ELSE "auto")
\* the bucket of the selection
BucketOf(t) == turns[t].route_reason[1]
Routed(t) == <<turns[t].provider, turns[t].model>>

\* C17: the rules apply in a fixed precedence, first match wins: manual mode
\* with both a requested provider and a requested model; then preset fastest
\* (fast pair, 'bucket=fast_preset'); then logical (logical pair,
\* 'bucket=logical_preset'); then everyday or artistic (default pair,
\* 'bucket=<preset>_preset'); otherwise routing by content.  Manual mode
\* without a provider or without a model falls through to the presets.
C17_Precedence ==
    \A t \in TurnIds :
        LET req == turns[t].request
            manual == /\ NormalMode(req.route_mode) = "manual"
                      /\ req.provider \notin {NoneVal, ""}
                      /\ req.model \notin {NoneVal, ""}
        IN  Started(t) =>
              /\ manual => BucketOf(t) = Seg("bucket", "manual")
              /\ (~manual /\ PresetOf(req) = "fastest") =>
                    /\ turns[t].route_reason = <<Seg("bucket", "fast_preset")>>
                    /\ Routed(t) = <<RoutingConfig.FAST_PROVIDER, RoutingConfig.FAST_MODEL>>
              /\ (~manual /\ PresetOf(req) = "logical") =>
                    /\ turns[t].route_reason = <<Seg("bucket", "logical_preset")>>
                    /\ Routed(t) = <<RoutingConfig.LOGIC_PROVIDER, RoutingConfig.LOGIC_MODEL>>
              /\ (~manual /\ PresetOf(req) \in {"everyday", "artistic"}) =>
                    /\ turns[t].route_reason = <<Seg("bucket", PresetOf(req) \o "_preset")>>
                    /\ Routed(t) = <<default_provider, default_model>>
              /\ (~manual /\ PresetOf(req) \notin {"fastest", "logical", "everyday",
                                                     "artistic"}) =>
                    /\ turns[t].route_reason = route_llm_for_message(req.message)[3]
                    /\ Routed(t) = <<route_llm_for_message(req.message)[1],
                                     route_llm_for_message(req.message)[2]>>

\* a manual request without a model, with a preset, was routed by the preset
C17_Witness ==
    \E t \in TurnIds :
        /\ Started(t)
        /\ turns[t].request.route_mode = "manual"
        /\ turns[t].request.provider = "anthropic"
        /\ turns[t].request.model = NoneVal
        /\ turns[t].request.route_preset = "fastest"
        /\ turns[t].request.message = "prove"
        /\ BucketOf(t) = Seg("bucket", "fast_preset")

\* the request names a preset that is not one of the five
UnknownPreset(req) ==
    PresetOf(req) \notin {"auto", "fastest", "logical", "everyday", "artistic"}
\* the messages that a turn has written to the log of its role
MessagesOf(t) == {m \in LogOf(turns[t].user_role) : m.turn = t}

\* C18: a route_preset outside {auto, fastest, logical, everyday, artistic} is
\* treated exactly as auto: the request is not rejected, it is routed as the
\* same request with preset auto is, and the preset stored on its messages and
\* returned in the response is 'auto'.
C18_UnknownPresetIsAuto ==
    \A t \in TurnIds :
        LET req == turns[t].request
            as_auto == Route([req EXCEPT !.route_preset = "auto"])
        IN  (Started(t) /\ UnknownPreset(req))
            => /\ turns[t].pc # "rejected"
               /\ turns[t].provider = as_auto.provider
               /\ turns[t].model = as_auto.model
               /\ turns[t].route_reason = as_auto.route_reason
               /\ turns[t].route_preset = "auto"
               /\ \A m \in MessagesOf(t) : m.route_preset = "auto"

\* a turn with the preset 'turbo' ended in success with both messages stored
C18_Witness ==
    \E t \in TurnIds :
        /\ turns[t].pc = "done"
        /\ turns[t].request.route_preset = "turbo"
        /\ turns[t].request.message = "quick"
        /\ turns[t].route_preset = "auto"
        /\ Cardinality(MessagesOf(t)) = 2

\* C19: routing never fails or rejects a request because of the requested or
\* the selected provider/model: it always yields a pair on the allow-list, and no
\* chat request is answered 'Unsupported provider/model'.
C19_RoutingNeverRejects ==
    \A t \in TurnIds :
        Started(t) => /\ turns[t].pc # "rejected"
                      /\ IsAllowed(turns[t].provider, turns[t].model)

\* a manual request for a provider that is not on the allow-list was served
C19_Witness ==
    \E t \in TurnIds :
        /\ turns[t].pc = "done"
        /\ turns[t].request.route_mode = "manual"
        /\ turns[t].request.provider = "mistral"
        /\ turns[t].request.model = "gpt-4o"
        /\ IsAllowed(turns[t].provider, turns[t].model)

\* no other request has been made for the session of turn t
FreshSession(t) ==
    \A q \in TurnIds \ {t} :
        Started(q) => ~(/\ turns[q].user_role = turns[t].user_role
                        /\ turns[q].user_id = turns[t].user_id
                        /\ turns[q].session_id = turns[t].session_id)
Count(writes, w) == Cardinality({i \in 1..Len(writes) : writes[i] = w})
\* the log of the session of turn t
SessionLog(t) ==
    FindMessages(chat_messages[turns[t].user_role], turns[t].user_id, turns[t].session_id)
\* what scenario A says of a turn that ended in success on a new session
NewSessionTurn(t) ==
    /\ Count(turns[t].writes, "insert_message") = 2
    /\ Count(turns[t].writes, "upsert_session") = 1
    /\ Len(SessionLog(t)) = 2
    /\ SessionLog(t)[1].role = "user" /\ SessionLog(t)[1].turn = t
    /\ SessionLog(t)[2].role = "assistant" /\ SessionLog(t)[2].turn = t
    /\ LET listed == ListSessions(turns[t].user_role, turns[t].user_id)
       IN  Cardinality({i \in 1..Len(listed) :
                          listed[i].session_id = turns[t].session_id}) = 1
    /\ (PresetOf(turns[t].request) = "fastest" /\ ~IsManual(turns[t].request))
          => Routed(t) = <<RoutingConfig.FAST_PROVIDER, RoutingConfig.FAST_MODEL>>

C21_RejectedNoEffect ==
    [][last_response'.status \in {400, 404} =>
          /\ chat_sessions' = chat_sessions
          /\ chat_messages' = chat_messages
          /\ in_memory_sessions' = in_memory_sessions
          /\ handles' = handles
          /\ \A t \in TurnIds : turns'[t].sends = turns[t].sends
      ]_vars

\* a delete request for a session stored under another user was answered
\* not-found
C21_Witness ==
    /\ last_response.op = "delete"
    /\ last_response.status = 404
    /\ \E e \in StoredSessions :
          /\ e[1] = last_response.role
          /\ e[2].session_id = last_response.session_id
          /\ e[2].user_id # last_response.user_id

\* the appends that the turns have made to the log of a role
AppendsTo(role) ==
    {<<t, i>> \in TurnIds \X (1..3) :
        /\ turns[t].user_role = role
        /\ i <= Len(turns[t].writes)
        /\ turns[t].writes[i] = "insert_message"}

\* C22: under any interleaving of concurrent chat turns on one (role, user_id,
\* session_id), with no delete request, every message that a turn appended is
\* in the log as an entry of its own: the log holds as many messages as appends
\* were made, no two of them the same entry.
C22_AppendsKept ==
    \A r \in Roles :
        /\ Len(chat_messages[r]) = Cardinality(AppendsTo(r))
        /\ \A i, j \in 1..Len(chat_messages[r]) :
              i # j => chat_messages[r][i] # chat_messages[r][j]
        /\ \A t \in TurnIds :
              turns[t].user_role = r =>
                /\ Count(turns[t].writes, "insert_message") >= 1 => UserMessageLogged(t)
                /\ Count(turns[t].writes, "insert_message") = 2 =>
                      \E m \in LogOf(r) : m.role = "assistant" /\ m.turn = t

\* two turns on the same session both wrote their user message before either
\* wrote its assistant message, and both ended in success
C22_Witness ==
    /\ Len(chat_messages["student"]) = 4
    /\ chat_messages["student"][1].role = "user"
    /\ chat_messages["student"][2].role = "user"
    /\ chat_messages["student"][1].session_id = chat_messages["student"][2].session_id
    /\ chat_messages["student"][1].turn # chat_messages["student"][2].turn

\* the number of messages that the turns made so far have to have left for the
\* history request answered last, by its contract: one for a turn that failed,
\* two for a turn that succeeded
MessagesDue ==
    LET due(t) ==
            IF /\ turns[t].user_role = last_response.role
               /\ turns[t].user_id = last_response.user_id
               /\ Truthy(last_response.session_id) =>
                     turns[t].session_id = last_response.session_id
            THEN CASE turns[t].pc = "failed" -> {<<t, 1>>}
                   [] turns[t].pc = "done" -> {<<t, 1>>, <<t, 2>>}
                   [] OTHER -> {}
            ELSE {}
    IN  Cardinality(UNION {due(t) : t \in TurnIds})

\* C23: the MongoDB backend and the in-memory backend satisfy one contract:
\* after the same operations they return the same results.  Whichever backend
\* the process runs on, a history request is answered from the messages that
\* the turns of that user (and session) have left: it succeeds, and with a
\* limit of at least 1 it returns as many messages as are due after the skip,
\* up to the limit.
C23_BackendsAgree ==
    last_response.op = "history" =>
        /\ last_response.status = 200
        /\ HistoryLimit >= 1 =>
              Len(Listed) =
                 LET rest == IF MessagesDue > HistorySkip THEN MessagesDue - HistorySkip
                             ELSE 0
                 IN  IF rest < HistoryLimit THEN rest ELSE HistoryLimit

\* the log after the step holds the log before it, unchanged, at its front
LogKept(old, new) == Len(new) >= Len(old) /\ SubSeq(new, 1, Len(old)) = old
\* the log after the step is the log before it less the messages of the session
\* whose delete request d is answered with success by the step
LogLessSession(old, new, role, d) ==
    /\ dels[d].pc = "cascade" /\ dels[d].user_role = role
    /\ last_response' = Response("delete", role, dels[d].user_id, dels[d].session_id, 200)
    /\ LET keep == {i \in 1..Len(old) : ~(/\ old[i].user_id = dels[d].user_id
                                           /\ old[i].session_id = dels[d].session_id)}
       IN  /\ Len(new) = Cardinality(keep)
           /\ \A i \in keep : new[Cardinality({j \in keep : j <= i})] = old[i]

\* C24: no operation changes a field of a stored message, and a stored message
\* is removed only by a successful delete request for its own (user_id,
\* session_id): chat turns and create-session requests leave every stored
\* message as it is.
C24_MessagesImmutable ==
    [][\A r \in Roles :
          \/ LogKept(chat_messages[r], chat_messages'[r])
          \/ \E d \in DelIds : LogLessSession(chat_messages[r], chat_messages'[r], r, d)
      ]_vars

\* the delete request for a session that a turn had written messages to was
\* answered with success, and the log still holds the messages that another
\* user has under the same session id
C24_Witness ==
    /\ last_response.op = "delete" /\ last_response.status = 200
    /\ \E t \in TurnIds :
          /\ Count(turns[t].writes, "insert_message") >= 1
          /\ turns[t].user_role = last_response.role
          /\ turns[t].user_id = last_response.user_id
          /\ turns[t].session_id = last_response.session_id
    /\ \E m \in LogOf(last_response.role) :
          m.user_id # last_response.user_id /\ m.session_id = last_response.session_id

\* two records of one session: same namespace, user and session id
SameSession(e1, e2) ==
    /\ e1[1] = e2[1]
    /\ e1[2].user_id = e2[2].user_id
    /\ e1[2].session_id = e2[2].session_id
\* what a step may do to the stored sessions: every record has its created_at,
\* and a record that was stored before keeps its created_at and its title, and
\* its handles once it has them
CreatedAtKeptStep ==
    \A e \in StoredSessions' :
        /\ e[2].created_at # NoKey
        /\ \A e0 \in StoredSessions :
              SameSession(e0, e) =>
                 /\ e[2].created_at = e0[2].created_at
                 /\ e[2].title = e0[2].title
                 /\ HasHandle(e0[2].assistant_id) => e[2].assistant_id = e0[2].assistant_id
                 /\ HasHandle(e0[2].thread_id) => e[2].thread_id = e0[2].thread_id

\* C25: every stored session has a created_at, set when the session was first
\* written, and no later chat turn on the session changes or removes it; a later
\* turn changes updated_at and the handles on their first assignment, and
\* nothing else.  This holds on both backends.
C25_CreatedAtKept == [][CreatedAtKeptStep]_vars

\* the turn is about to make an external call, or is past its first one
AtOrPastExternalCall(t) ==
    turns[t].pc \in {"create_assistant", "create_thread", "add_message", "retry",
                     "upsert_session", "insert_assistant", "done", "failed"}
\* the log holds the user message of the turn, tagged as the turn was routed
RoutedUserMessageLogged(t) ==
    \E m \in LogOf(turns[t].user_role) :
        /\ m.role = "user" /\ m.turn = t
        /\ m.user_id = turns[t].user_id /\ m.session_id = turns[t].session_id
        /\ m.provider = turns[t].provider /\ m.model = turns[t].model
        /\ m.route_reason = turns[t].route_reason
\* after a runtime fallback the assistant message of a turn that succeeded has
\* another provider/model and another reason than its user message
FallbackTagsDiffer(t) ==
    (turns[t].pc = "done" /\ Len(turns[t].sends) = 2) =>
        \E a \in LogOf(turns[t].user_role) :
            /\ a.role = "assistant" /\ a.turn = t
            /\ <<a.provider, a.model>> # <<turns[t].provider, turns[t].model>>
            /\ a.route_reason # turns[t].route_reason

AssistantMessageLogged(t) ==
    /\ Started(t)
    /\ \E m \in LogOf(turns[t].user_role) : m.role = "assistant" /\ m.turn = t
\* the turn has written its session record, and the record is stored
SessionWritten(t) ==
    /\ Count(turns[t].writes, "upsert_session") = 1
    /\ FindSession(turns[t].user_role, turns[t].user_id, turns[t].session_id) # <<>>

\* C27 as stated: in a successful chat turn the assistant message is persisted
\* before the session record is upserted; no state is reachable in which the
\* session record of a turn has been written while the assistant message of
\* that turn is not yet in the log.
C27_AssistantBeforeSession ==
    \A t \in TurnIds : SessionWritten(t) => AssistantMessageLogged(t)

\* C27, amended: the session record is upserted before the assistant message
\* is persisted; no state is reachable in which the assistant message of a turn
\* is in the log while the session record of that turn has not been written.
C27_SessionBeforeAssistant ==
    \A t \in TurnIds : AssistantMessageLogged(t) => SessionWritten(t)

\* on MongoDB a turn has upserted its session and not yet inserted its
\* assistant message
C27_Witness ==
    \E t \in TurnIds :
        /\ backend = "mongo"
        /\ turns[t].pc = "insert_assistant"
        /\ SessionWritten(t)
        /\ ~AssistantMessageLogged(t)

(* C28 *)
\* the state of the retry pipeline of lines 247-320 a turn is in: the routed
\* attempt (with what the handler does before it), the attempt with the default,
\* the answer of add_message in hand, or the exception answered 500
Phase(t) ==
    CASE turns[t].pc \in {"insert_user", "create_assistant", "create_thread", "add_message"}
           -> "Attempting"
      [] turns[t].pc = "retry" -> "FallbackAttempting"
      [] turns[t].pc \in {"upsert_session", "insert_assistant", "done"} -> "Succeeded"
      [] turns[t].pc = "failed" -> "Failed"
      [] OTHER -> "None"
PhaseMoves ==
    {<<"Attempting", "Succeeded">>, <<"Attempting", "FallbackAttempting">>,
     <<"Attempting", "Failed">>, <<"FallbackAttempting", "Succeeded">>,
     <<"FallbackAttempting", "Failed">>}
\* Phase(t) in the next state
PhaseNext(t) ==
    CASE turns'[t].pc \in {"insert_user", "create_assistant", "create_thread", "add_message"}
           -> "Attempting"
      [] turns'[t].pc = "retry" -> "FallbackAttempting"
      [] turns'[t].pc \in {"upsert_session", "insert_assistant", "done"} -> "Succeeded"
      [] turns'[t].pc = "failed" -> "Failed"
      [] OTHER -> "None"
PhaseStep ==
    \A t \in TurnIds :
        /\ Phase(t) # "None" /\ PhaseNext(t) # Phase(t)
              => <<Phase(t), PhaseNext(t)>> \in PhaseMoves
        /\ Ended(t) => turns'[t].pc = turns[t].pc

\* C28: a chat turn changes its state only along Attempting -> Succeeded,
\* Attempting -> FallbackAttempting, Attempting -> Failed, FallbackAttempting ->
\* Succeeded and FallbackAttempting -> Failed, never back to Attempting; an ended
\* turn stays as it ended; and, every external call returning or failing, a turn
\* in flight eventually ends, Succeeded (answered 200) or Failed (answered 500).
C28_TurnTerminates ==
    /\ [][PhaseStep]_vars
    /\ \A t \in TurnIds : InFlightTurn(t) ~> Ended(t)

\* a turn has ended Failed after the attempt with the default
C28_Witness ==
    \E t \in TurnIds :
        /\ Phase(t) = "Failed"
        /\ Len(turns[t].sends) = 2
        /\ ~turns[t].sends[1].ok /\ ~turns[t].sends[2].ok

(* C29 *)
\* a title a client chose, not the default of a request that names none
RealTitle(title) == Truthy(title) /\ title # "Untitled"

\* C29: with chat turns on the same (role, user_id, session_id) running
\* concurrently, one naming a real title and the others none, no step replaces
\* the real title the session stores by the default "Untitled".
C29_TitleKeptConcurrently ==
    [][\A u \in UserIds, sid \in ClientSessionIds :
          LET stored == FindSession("student", u, sid)
          IN  (stored # <<>> /\ RealTitle(stored[1].title))
              => \/ FindSession("student", u, sid)' = <<>>
                 \/ (FindSession("student", u, sid)')[1].title # "Untitled"
      ]_vars

(* C30 *)
\* the user_id of the requests that take the step: a chat turn, a delete
\* request at its lookup or at its removal, a create-session request
ActingUsers ==
    {turns'[t].user_id : t \in {q \in TurnIds : turns'[q] # turns[q]}}
      \cup {dels'[d].user_id : d \in {q \in DelIds : dels'[q] # dels[q] /\ dels'[q].pc # "idle"}}
      \cup {dels[d].user_id : d \in {q \in DelIds : dels'[q] # dels[q] /\ dels[q].pc # "idle"}}
      \cup (IF creates' # creates THEN {last_response'.user_id} ELSE {})

\* C30: a step creates, changes or removes only session records whose stored
\* user_id is the user_id of the request that takes the step, whatever
\* session_id the request names, on both backends.
C30_OwnRecordsOnly ==
    [][\A e \in (StoredSessions \ StoredSessions') \cup (StoredSessions' \ StoredSessions) :
          e[2].user_id \in ActingUsers
      ]_vars

(* C31 *)
\* the turns are on the same (role, user_id, session_id)
SameKey(t1, t2) ==
    /\ Started(t1) /\ Started(t2)
    /\ turns[t1].user_role = turns[t2].user_role
    /\ turns[t1].user_id = turns[t2].user_id
    /\ turns[t1].session_id = turns[t2].session_id
\* the turn provisioned a thread of its own
Provisioned(t) == Started(t) /\ turns[t].made_thread # NoHandle
\* the assistant messages stored for the session of a record
AssistantMessagesOf(e) ==
    {m \in LogOf(e[1]) : /\ m.role = "assistant"
                         /\ m.user_id = e[2].user_id
                         /\ m.session_id = e[2].session_id}

\* C31: under any interleaving of chat turns on one session, no two of them
\* provision a thread each, and every assistant message stored for a session
\* carries the assistant_id and thread_id of the session record.
C31_OneProvision ==
    /\ \A t1, t2 \in TurnIds :
          (SameKey(t1, t2) /\ Provisioned(t1) /\ Provisioned(t2)) => t1 = t2
    /\ \A e \in StoredSessions : \A m \in AssistantMessagesOf(e) :
          m.assistant_id = e[2].assistant_id /\ m.thread_id = e[2].thread_id

(* C32 *)
\* the message at position i of the log of a role follows the user message of
\* its own turn
FollowsUserMessage(role, i) ==
    \E j \in 1..(i - 1) :
        /\ chat_messages[role][j].role = "user"
        /\ chat_messages[role][j].turn = chat_messages[role][i].turn
        /\ chat_messages[role][j].user_id = chat_messages[role][i].user_id
        /\ chat_messages[role][j].session_id = chat_messages[role][i].session_id

\* C32: with chat turns and delete requests on one session interleaved in any
\* way, once every request has finished each assistant message of the log
\* comes after the user message of its own turn.
C32_RepliesFollowRequests ==
    Quiet => \A role \in Roles : \A i \in 1..Len(chat_messages[role]) :
                 chat_messages[role][i].role = "assistant" => FollowsUserMessage(role, i)

(* C33 *)
\* C33: on the persistent backend, with no turn and no delete in flight, every
\* stored message belongs to a stored session record of its (user_id,
\* session_id), the one a delete request has to find to remove the message.
C33_MessagesHaveSessions ==
    (backend = "mongo" /\ Quiet)
        => \A role \in Roles : \A m \in LogOf(role) :
               DeleteFinds(role, m.user_id, m.session_id)

(* C34 *)
\* C34: every add_message call of a turn, the retry with the default included,
\* is made with a provider/model pair of the allow-list, and the provider and
\* model stored on every user and assistant message are such a pair.
C34_AllowListedEverywhere ==
    /\ \A t \in TurnIds : \A i \in 1..Len(turns[t].sends) :
          IsAllowed(turns[t].sends[i].provider, turns[t].sends[i].model)
    /\ \A role \in Roles : \A m \in LogOf(role) : IsAllowed(m.provider, m.model)

\* a turn was answered by the retry with the default after its routed pair
\* failed, and its user and assistant message are stored
C34_Witness ==
    \E t \in TurnIds :
        /\ turns[t].pc = "done"
        /\ Len(turns[t].sends) = 2
        /\ turns[t].sends[1].provider # turns[t].sends[2].provider
        /\ \E m1, m2 \in LogOf(turns[t].user_role) :
              /\ m1.turn = t /\ m1.role = "user"
              /\ m2.turn = t /\ m2.role = "assistant"

====
